---- MODULE Spec2Model ----
(***************************************************************************)
(* The job pipeline of the code-review system: one review job travelling   *)
(* through POST /api/repositories, the Bull queue 'code-review' and the    *)
(* worker's processReviewJob.  Every await of processReviewJob is one      *)
(* step; every call to the store, the cloner or the file parser either     *)
(* returns or throws.                                                      *)
(***************************************************************************)
EXTENDS Integers, Sequences, FiniteSets, TLC

\* ---------------------------------------------------------------- bounds
MaxFiles == 1            \* parseCodeFiles returns 0..MaxFiles files

MaxCalls == 3            \* calls of queueReviewJob
MaxIssues == 1           \* length of the issues array in one agent's reply
MaxFindings == 2         \* issues flattened into finding rows
MaxEnumerated == 2       \* files of the attempt that is followed await by await
MaxRows == 201           \* finding rows extracted by one attempt
MaxMoves == 2            \* jobs changing their state during one getQueueStats

\* ------------------------------------------------------ program constants
Attempts == 3            \* defaultJobOptions.attempts
Concurrency == 2         \* reviewQueue.process('code-review', 2, ...)
MaxStalledCount == 1     \* the queue is built without settings: Bull's default

Slots == 1..Concurrency
NoSlot == 0
NULL == "null"
Unset == -1              \* total_files INTEGER has no default: NULL until written

Terminal == {"completed", "failed"}

JobIds == {"job-1", "job-2"}     \* the job ids queueReviewJob is called with

\* this.agents of the orchestrator, by specialty
Agents == <<"bug_detection", "performance", "style", "security">>
K == Len(Agents)

DefaultPriority == 10    \* priority: options.priority || 10
DefaultDelay == 0        \* delay: options.delay || 0
BATCH_SIZE == 100        \* const BATCH_SIZE = 100

VARIABLES
    job,         \* the review_jobs row
    q,           \* the job as the Bull queue holds it
    inv,         \* the processReviewJob invocations, one per processor slot
    results,     \* number of review_results rows of the job
    invocations, \* how many times processReviewJob was called for the job
    scenario     \* history: how the attempts settled so far (see Observe)

\* the queue 'code-review' as the callers of queueReviewJob(jobId, repoId,
\* options) see it: jobs, the jobs the queue holds by their queue id; runs,
\* how often the processor ran for each payload jobId; calls, the calls made
VARIABLES reviewQueue

\* one call of orchestrator.analyzeCode, for one file of the worker's loop:
\* promises, the promise of each agent's analyze(); analysis, the call itself
VARIABLES promises, analysis

\* STEP 6.5 of the worker, the flattening of the reports' issues into rows of
\* the reviews table: the agentMap, the issues taken, the rows made of them
\* and, per issue, whether the step logged a warning
VARIABLES flatten

\* STEP 5 and STEP 6 of one attempt of the worker, await by await: the loop
\* over the enumerated files, the aggregation and the rows made of the reports
VARIABLES fileLoop

\* the batched inserts into the reviews table at the end of STEP 6.5
VARIABLES saving

\* PATCH /api/jobs/:id and GET /api/jobs: the job row they act on and the
\* response of the last request
VARIABLES api

\* getQueueStats reading the five counts of the queue while jobs move
VARIABLES monitor

\* the components added to the four above
rest == <<fileLoop, saving, api, monitor>>

\* the components the job pipeline does not touch
others == <<reviewQueue, promises, analysis, flatten, rest>>

vars == <<job, q, inv, results, invocations, scenario, others>>

pipeline == <<job, q, inv, results, invocations, scenario>>

\* ------------------------------------------------------------- helpers
\* supabase .update(updates): the named columns change, the others stay
Merge(row, updates) ==
    [f \in DOMAIN row |-> IF f \in DOMAIN updates THEN updates[f] ELSE row[f]]

\* 40 + Math.floor((processed / files.length) * 50)
progressPercent(processed, n) == 40 + ((processed * 50) \div n)

IdleInv ==
    [pc |-> "idle", err |-> NULL, cleanup |-> FALSE, tempDir |-> "none",
     files |-> 0, i |-> 0, outcome |-> "none", agentThrew |-> FALSE,
     closing |-> <<>>, persisted |-> "none"]

Init ==
    /\ job = [status |-> "queued", progress |-> 0, total_files |-> Unset,
              processed_files |-> 0, error_message |-> NULL,
              started_at |-> FALSE, completed_at |-> FALSE]
    /\ q = [state |-> "unqueued", attemptsMade |-> 0, failedReason |-> NULL,
            lock |-> NoSlot, stalledCounter |-> 0]
    /\ inv = [w \in Slots |-> IdleInv]
    /\ results = 0
    /\ invocations = 0
    /\ scenario = "t0"
    /\ reviewQueue = [jobs |-> <<>>, runs |-> [j \in JobIds |-> 0], calls |-> 0]
    /\ promises = [a \in 1..K |-> [st |-> "none"]]
    /\ analysis = [pc |-> "idle", file |-> "first", failedEarlier |-> FALSE,
                   report |-> <<>>]
    /\ flatten = [pc |-> "lookup", agentMap |-> {}, issues |-> <<>>,
                  allFindings |-> <<>>, warned |-> <<>>]
    /\ fileLoop = [pc |-> "parseCodeFiles", n |-> 0, i |-> 0, log |-> <<>>,
                   analysisResults |-> <<>>, totalIssues |-> 0,
                   stored |-> <<>>, allFindings |-> <<>>]
    /\ saving = [pc |-> "extracted", n |-> 0, i |-> 0, batches |-> <<>>,
                 insertedCount |-> 0]
    /\ api = [row |-> [status |-> "queued", progress |-> 0,
                       started_at |-> FALSE, completed_at |-> FALSE],
              route |-> "none", request |-> <<>>, response |-> 0]
    /\ monitor = [jobs |-> [j \in JobIds |-> "none"], pc |-> "idle",
                  counts |-> <<>>, stats |-> <<>>, seen |-> {}, moves |-> 0]

\* ------------------------------------------------- the worker's store calls
\* updateJobStatus(jobId, updates): one UPDATE of the review_jobs row.  It
\* asks nothing about the queue lease of the caller.
updateJobStatus(w, updates) == job' = Merge(job, updates)

Goto(w, p) == inv' = [inv EXCEPT ![w].pc = p]

\* an awaited call rejects inside the try block: control moves to catch
Throw(w, e) == inv' = [inv EXCEPT ![w].pc = "catch", ![w].err = e]

\* ------------------------------------------------------------ POST /
\* The route has inserted the job row (status queued, progress 0) and calls
\* queueReviewJob; an error of the queue is logged and swallowed.
queueReviewJob ==
    /\ q.state = "unqueued"
    /\ \/ q' = [q EXCEPT !.state = "waiting"]
       \/ q' = [q EXCEPT !.state = "lost"]
    /\ UNCHANGED <<job, inv, results, invocations, scenario, others>>

\* ------------------------------------------------------------ the queue
\* the backoff delay of a retried job elapses
Promote ==
    /\ q.state = "delayed"
    /\ q' = [q EXCEPT !.state = "waiting"]
    /\ UNCHANGED <<job, inv, results, invocations, scenario, others>>

\* the queue hands the waiting job to a free processor slot, which calls
\* processReviewJob(job)
Lease(w) ==
    /\ q.state = "waiting"
    /\ inv[w].pc = "idle"
    /\ \A v \in Slots : inv[v].pc = "idle" => w <= v
    /\ q' = [q EXCEPT !.state = "active", !.lock = w]
    /\ inv' = [inv EXCEPT ![w] = [IdleInv EXCEPT !.pc = "fetchRepo"]]
    /\ invocations' = invocations + 1
    /\ UNCHANGED <<job, results, scenario, others>>

\* the lock of the active job expires while its processor still runs
\* ("worker crashed or took too long"): the queue puts the job back to
\* waiting, or fails it once it stalled more often than allowed.  The
\* stalled invocation is not told and is not counted as an attempt.
Stalled(w) ==
    /\ q.state = "active"
    /\ q.lock = w
    /\ inv[w].pc \notin {"idle", "settle"}
    /\ IF q.stalledCounter < MaxStalledCount
          THEN q' = [q EXCEPT !.state = "waiting", !.lock = NoSlot,
                              !.stalledCounter = @ + 1]
          ELSE q' = [q EXCEPT !.state = "failed", !.lock = NoSlot,
                              !.stalledCounter = @ + 1,
                              !.failedReason = "Stalled"]
    /\ UNCHANGED <<job, inv, results, invocations, scenario, others>>

\* --------------------------------------------------- processReviewJob
\* One step per write of the job row; the awaits between two writes that
\* touch neither the job row nor the queue (the repository row's status, the
\* clone, the file parser, the analyzers, job.progress) belong to the step
\* of the write that follows them, or, after the last write, precedes them.

\* unchanged by a step that touches only the invocation itself
Local == <<job, q, results, invocations, scenario, others>>

\* STEP 1: select the repository row; "repoError || !repo" throws
FetchRepository(w) ==
    /\ inv[w].pc = "fetchRepo"
    /\ \/ Goto(w, "markProcessing")
       \/ Throw(w, "RepoNotFound")
    /\ UNCHANGED Local

\* STEP 2: status -> processing, started_at; then
\* updateRepositoryStatus(repoId, 'cloning'), which may throw; job.progress(10)
MarkProcessing(w) ==
    /\ inv[w].pc = "markProcessing"
    /\ \/ /\ updateJobStatus(w, [status |-> "processing", started_at |-> TRUE])
          /\ \/ Goto(w, "clone")
             \/ Throw(w, "StoreError")
       \/ /\ Throw(w, "StoreError")
          /\ UNCHANGED job
    /\ UNCHANGED <<q, results, invocations, scenario, others>>

\* STEP 3: cloneRepository creates a temp directory and clones into it; when
\* the clone fails it removes the directory itself and throws "Clone failed".
\* On success the invocation keeps the cleanup closure.
\* STEP 4: updateRepositoryStatus(repoId, 'analyzing') and parseCodeFiles,
\* either of which may throw; files.length is 0..MaxFiles.
cloneRepository(w) ==
    /\ inv[w].pc = "clone"
    /\ \/ \E n \in 0..MaxFiles :
             inv' = [inv EXCEPT ![w].pc = "recordTotal", ![w].cleanup = TRUE,
                                ![w].tempDir = "exists", ![w].files = n]
       \/ inv' = [inv EXCEPT ![w].pc = "catch", ![w].err = "StoreError",
                             ![w].cleanup = TRUE, ![w].tempDir = "exists"]
       \/ inv' = [inv EXCEPT ![w].pc = "catch", ![w].err = "CloneFailed",
                             ![w].tempDir = "removed"]
    /\ UNCHANGED Local

\* faulty variant: the loop over the files is left out
RecordTotalSkipsAnalysis(w) ==
    /\ inv[w].pc = "recordTotal"
    /\ \/ /\ updateJobStatus(w, [total_files |-> inv[w].files,
                                 processed_files |-> 0])
          /\ inv' = [inv EXCEPT ![w].pc = "persist", ![w].i = 0]
       \/ /\ Throw(w, "StoreError")
          /\ UNCHANGED job
    /\ UNCHANGED <<q, results, invocations, scenario, others>>

\* total_files = files.length, processed_files = 0; job.progress(40)
RecordTotal(w) ==
    /\ inv[w].pc = "recordTotal"
    /\ \/ /\ updateJobStatus(w, [total_files |-> inv[w].files,
                                 processed_files |-> 0])
          /\ inv' = [inv EXCEPT ![w].pc = IF inv[w].files > 0 THEN "analyze"
                                                              ELSE "persist",
                                ![w].i = 0]
       \/ /\ Throw(w, "StoreError")
          /\ UNCHANGED job
    /\ UNCHANGED <<q, results, invocations, scenario, others>>

\* faulty variant: an analyzer error is rethrown out of analyzeCode
analyzeCodeRethrows(w, threw) ==
    IF threw
       THEN [inv EXCEPT ![w].pc = "catch", ![w].err = "AnalyzerError",
                        ![w].agentThrew = TRUE]
       ELSE [inv EXCEPT ![w].pc = IF inv[w].i + 1 < inv[w].files
                                     THEN "analyze" ELSE "persist",
                        ![w].i = @ + 1]

\* orchestrator.analyzeCode(file.content, file.language): every agent
\* catches its own error and returns an error outcome, so the call returns
\* whether or not the analyzer backend threw (threw).
analyzeCode(w, threw) ==
    [inv EXCEPT ![w].pc = IF inv[w].i + 1 < inv[w].files THEN "analyze"
                                                       ELSE "persist",
                ![w].i = @ + 1,
                ![w].agentThrew = @ \/ threw]

\* STEP 5, one turn of the loop over files: analyze files[i], then write
\* processed_files = i + 1 and progress.  The turn throws when the write
\* throws, or when analyzeCode does (see analyzeCodeJoin); the job row is as
\* it was then.
AnalyzeFile(w) ==
    /\ inv[w].pc = "analyze"
    /\ \E threw \in BOOLEAN :
         LET after == analyzeCode(w, threw)
             processed == inv[w].i + 1
         IN  \/ /\ after[w].pc # "catch"
                /\ updateJobStatus(w,
                      [processed_files |-> processed,
                       progress |-> progressPercent(processed, inv[w].files)])
                /\ inv' = after
             \/ /\ inv' = [after EXCEPT ![w].pc = "catch",
                              ![w].err = IF after[w].pc = "catch"
                                            THEN after[w].err ELSE "StoreError"]
                /\ UNCHANGED job
    /\ UNCHANGED <<q, results, invocations, scenario, others>>

\* faulty variant: an error of the agents lookup or of a batch insert is thrown
saveFindingsOrThrow(w, agentsError, insertErrors) ==
    IF agentsError \/ insertErrors
       THEN [inv EXCEPT ![w].pc = "catch", ![w].err = "StoreError",
                        ![w].persisted = "partly"]
       ELSE [inv EXCEPT ![w].pc = "markCompleted", ![w].persisted = "fully"]

\* STEP 6.5: the agents lookup and the batched inserts into reviews; an
\* error either of them returns is logged and the job goes on
saveFindings(w, agentsError, insertErrors) ==
    [inv EXCEPT ![w].pc = "markCompleted",
                ![w].persisted = IF agentsError \/ insertErrors THEN "partly"
                                                                ELSE "fully"]

\* STEP 6: insert into review_results; resultsError is thrown.  Then STEP
\* 6.5.  persisted tells how far the attempt got: "refused" when the
\* aggregate's insert returned an error (no finding row is written then),
\* "fully" when the aggregate and all findings were stored, "partly" when
\* the aggregate was stored and the lookup or some batch returned an error.
\* It is kept until the attempt has made its terminal write.
InsertResults(w) ==
    /\ inv[w].pc = "persist"
    /\ \/ /\ results' = results + 1
          /\ \E agentsError, insertErrors \in BOOLEAN :
                inv' = saveFindings(w, agentsError, insertErrors)
       \/ /\ inv' = [inv EXCEPT ![w].pc = "catch", ![w].err = "StoreError",
                                ![w].persisted = "refused"]
          /\ UNCHANGED results
    /\ UNCHANGED <<job, q, invocations, scenario, others>>

\* STEP 7: status -> completed, progress 100, processed_files, completed_at;
\* then updateRepositoryStatus(repoId, 'completed'), which may throw;
\* job.progress(100); return
MarkCompleted(w) ==
    /\ inv[w].pc = "markCompleted"
    /\ \/ /\ updateJobStatus(w, [status |-> "completed", progress |-> 100,
                                 processed_files |-> inv[w].files,
                                 completed_at |-> TRUE])
          /\ \/ inv' = [inv EXCEPT ![w].pc = "finally",
                                   ![w].outcome = "returned",
                                   ![w].persisted = "none",
                                   ![w].closing = Append(@, "status")]
             \/ inv' = [inv EXCEPT ![w].pc = "catch", ![w].err = "StoreError",
                                   ![w].closing = Append(@, "status")]
       \/ /\ Throw(w, "StoreError")
          /\ UNCHANGED job
    /\ UNCHANGED <<q, results, invocations, scenario, others>>

\* faulty variant: the catch block removes the workspace before it writes failed
CatchCleansFirst(w) ==
    /\ inv[w].pc = "catch"
    /\ updateJobStatus(w, [status |-> "failed", error_message |-> inv[w].err,
                           completed_at |-> TRUE])
    /\ inv' = [inv EXCEPT ![w].pc = "finally", ![w].outcome = "thrown",
                          ![w].persisted = "none",
                          ![w].tempDir = IF inv[w].cleanup THEN "removed" ELSE @,
                          ![w].closing = IF inv[w].cleanup
                                            THEN @ \o <<"cleanup", "status">>
                                            ELSE Append(@, "status"),
                          ![w].cleanup = FALSE]
    /\ UNCHANGED <<q, results, invocations, scenario, others>>

\* catch (error): status -> failed, error_message, completed_at; then
\* updateRepositoryStatus(repoId, 'failed'); throw error.  When one of the
\* two writes throws, its error leaves the catch block instead.
Catch(w) ==
    /\ inv[w].pc = "catch"
    /\ \/ /\ updateJobStatus(w, [status |-> "failed",
                                 error_message |-> inv[w].err,
                                 completed_at |-> TRUE])
          /\ \E e \in {inv[w].err, "StoreError"} :
                inv' = [inv EXCEPT ![w].pc = "finally", ![w].outcome = "thrown",
                                   ![w].err = e, ![w].persisted = "none",
                                   ![w].closing = Append(@, "status")]
       \/ /\ inv' = [inv EXCEPT ![w].pc = "finally", ![w].outcome = "thrown",
                                ![w].err = "StoreError",
                                ![w].persisted = "none"]
          /\ UNCHANGED job
    /\ UNCHANGED <<q, results, invocations, scenario, others>>

\* faulty variant: the cleanup stands at the end of the try block, not in finally
CleanupOnlyOnReturn(w) ==
    /\ inv[w].pc = "finally"
    /\ IF inv[w].cleanup /\ inv[w].outcome = "returned"
          THEN inv' = [inv EXCEPT ![w].pc = "settle", ![w].tempDir = "removed",
                                  ![w].closing = Append(@, "cleanup")]
          ELSE Goto(w, "settle")
    /\ UNCHANGED Local

\* finally: if (cleanup) await cleanup(); cleanupTempDir never throws
Finally(w) ==
    /\ inv[w].pc = "finally"
    /\ IF inv[w].cleanup
          THEN inv' = [inv EXCEPT ![w].pc = "settle", ![w].tempDir = "removed",
                                  ![w].closing = Append(@, "cleanup")]
          ELSE Goto(w, "settle")
    /\ UNCHANGED Local

\* History of the attempts as they settle, kept for the example "the analyzer
\* backend throws on attempts 1-2 and succeeds on attempt 3": "t1"/"t2" after
\* one/two attempts that the queue failed and in which the backend threw,
\* "done" when the next attempt, in which the backend was called and did not
\* throw, is acknowledged; "off" for every other course.
Observe(w) ==
    IF ~(q.state = "active" /\ q.lock = w) THEN scenario
    ELSE IF inv[w].outcome = "thrown" /\ inv[w].agentThrew
         THEN (IF scenario = "t0" THEN "t1"
               ELSE IF scenario = "t1" THEN "t2" ELSE "off")
    ELSE IF inv[w].outcome = "returned" /\ scenario = "t2"
            /\ ~inv[w].agentThrew /\ inv[w].files > 0
         THEN "done"
    ELSE "off"

\* faulty variant: the retry test is off by one (attemptsMade <= attempts)
SettleRetriesOnceMore(w) ==
    /\ inv[w].pc = "settle"
    /\ LET held == q.state = "active" /\ q.lock = w
           made == q.attemptsMade + 1
       IN  /\ q' = IF ~held THEN q
                   ELSE IF inv[w].outcome = "returned"
                        THEN [q EXCEPT !.state = "completed", !.lock = NoSlot]
                        ELSE [q EXCEPT !.state = IF made <= Attempts
                                                    THEN "delayed" ELSE "failed",
                                       !.attemptsMade = made,
                                       !.failedReason = inv[w].err,
                                       !.lock = NoSlot]
           /\ inv' = [inv EXCEPT ![w] = IdleInv]
    /\ scenario' = Observe(w)
    /\ UNCHANGED <<job, results, invocations, others>>

\* The promise of processReviewJob has settled and the queue finishes the
\* job for the slot, provided the slot still holds the job's lock: a return
\* moves the job to completed; a throw counts one attempt and either delays
\* the job for a retry (attemptsMade < attempts) or moves it to failed,
\* where it is kept (removeOnFail: false).
Settle(w) ==
    /\ inv[w].pc = "settle"
    /\ LET held == q.state = "active" /\ q.lock = w
           made == q.attemptsMade + 1
       IN  /\ q' = IF ~held THEN q
                   ELSE IF inv[w].outcome = "returned"
                        THEN [q EXCEPT !.state = "completed", !.lock = NoSlot]
                        ELSE [q EXCEPT !.state = IF made < Attempts
                                                    THEN "delayed" ELSE "failed",
                                       !.attemptsMade = made,
                                       !.failedReason = inv[w].err,
                                       !.lock = NoSlot]
           /\ inv' = [inv EXCEPT ![w] = IdleInv]
    /\ scenario' = Observe(w)
    /\ UNCHANGED <<job, results, invocations, others>>

processReviewJob(w) ==
    \/ FetchRepository(w) \/ MarkProcessing(w) \/ cloneRepository(w)
    \/ RecordTotal(w) \/ AnalyzeFile(w) \/ InsertResults(w)
    \/ MarkCompleted(w) \/ Catch(w) \/ Finally(w)

Next ==
    \/ queueReviewJob
    \/ Promote
    \/ \E w \in Slots : Lease(w)
    \/ \E w \in Slots : Stalled(w)
    \/ \E w \in Slots : processReviewJob(w)
    \/ \E w \in Slots : Settle(w)

Spec == Init /\ [][Next]_vars

\* ==================================================== queueReviewJob, alone
\* The exported function under every argument: job ids, and options objects
\* in which each of the keys priority, delay and jobId is present or absent.
OptionsArgs ==
    {p @@ d @@ i : p \in {<<>>} \cup {[priority |-> x] : x \in {0, 1}},
                   d \in {<<>>} \cup {[delay |-> x] : x \in {0, 2000}},
                   i \in {<<>>} \cup {[jobId |-> x] : x \in JobIds}}

\* options.key || dflt
OrElse(options, key, dflt) ==
    IF key \in DOMAIN options /\ options[key] # 0 THEN options[key] ELSE dflt

\* the options object handed to reviewQueue.add: the spread of options comes
\* last, so each of its keys replaces the key written before it
addOptions(jobId, options) ==
    options @@ [jobId |-> jobId,
                priority |-> OrElse(options, "priority", DefaultPriority),
                delay |-> OrElse(options, "delay", DefaultDelay)]

\* Queue.add(name, data, opts) with a custom opts.jobId: a job whose id the
\* queue already holds (removeOnComplete and removeOnFail are false, so it
\* holds every job ever added) is not added again
add(jobs, data, opts) ==
    IF opts.jobId \in DOMAIN jobs THEN jobs
    ELSE [id \in DOMAIN jobs \cup {opts.jobId} |->
             IF id \in DOMAIN jobs THEN jobs[id]
             ELSE [data |-> data, priority |-> opts.priority,
                   delay |-> opts.delay,
                   state |-> IF opts.delay > 0 THEN "delayed" ELSE "waiting"]]

\* queueReviewJob(jobId, repoId, options); an error of add is rethrown and
\* nothing is queued
Enqueue(jobId, options) ==
    /\ reviewQueue.calls < MaxCalls
    /\ \/ reviewQueue' = [reviewQueue EXCEPT
                             !.jobs = add(@, jobId, addOptions(jobId, options)),
                             !.calls = @ + 1]
       \/ reviewQueue' = [reviewQueue EXCEPT !.calls = @ + 1]
    /\ UNCHANGED <<pipeline, rest, promises, analysis, flatten>>

\* the delay of a queued job elapses
PromoteQueued(id) ==
    /\ id \in DOMAIN reviewQueue.jobs
    /\ reviewQueue.jobs[id].state = "delayed"
    /\ reviewQueue' = [reviewQueue EXCEPT !.jobs[id].state = "waiting"]
    /\ UNCHANGED <<pipeline, rest, promises, analysis, flatten>>

\* the processor takes a waiting job and runs processReviewJob for the
\* jobId in its payload
ProcessQueued(id) ==
    /\ id \in DOMAIN reviewQueue.jobs
    /\ reviewQueue.jobs[id].state = "waiting"
    /\ reviewQueue' = [reviewQueue EXCEPT
                          !.jobs[id].state = "completed",
                          !.runs[reviewQueue.jobs[id].data] = @ + 1]
    /\ UNCHANGED <<pipeline, rest, promises, analysis, flatten>>

QueueNext ==
    \/ \E jobId \in JobIds, options \in OptionsArgs : Enqueue(jobId, options)
    \/ \E id \in JobIds : PromoteQueued(id)
    \/ \E id \in JobIds : ProcessQueued(id)

QueueSpec == Init /\ [][QueueNext]_vars

\* ============================================ orchestrator.analyzeCode, alone
\* What the chat completion of one agent does: it rejects (remote error,
\* timeout, quota), or it answers with content that is not JSON, or with JSON.
\* The JSON carries issues, an array of issues (each one its severity here)
\* or something that is no array, and a score.  Issues and score are
\* varied one at a time.
Severities == {"high", "medium", "low", "HIGH"}
Scores == {0, 85, 100}
IssueArrays == UNION {[1..n -> Severities] : n \in 0..MaxIssues}

Replies ==
    {[kind |-> "rejects"], [kind |-> "text"]}
    \cup {[kind |-> "json", isArray |-> TRUE, issues |-> is, score |-> 85] :
             is \in IssueArrays}
    \cup {[kind |-> "json", isArray |-> TRUE, issues |-> <<>>, score |-> sc] :
             sc \in Scores}
    \cup {[kind |-> "json", isArray |-> FALSE, issues |-> <<>>, score |-> 85]}

\* BaseAgent.analyze: the whole body stands in try, JSON.parse included; the
\* catch returns an outcome that carries error: error.message.  The promise
\* is always fulfilled.
analyze(a, reply) ==
    IF reply.kind = "json"
       THEN [st |-> "fulfilled",
             value |-> [specialty |-> Agents[a],
                        findings |-> [isArray |-> reply.isArray,
                                      issues |-> reply.issues,
                                      score |-> reply.score]]]
       ELSE [st |-> "fulfilled",
             value |-> [specialty |-> Agents[a],
                        error |-> IF reply.kind = "rejects"
                                     THEN "Request timed out."
                                     ELSE "Unexpected token in JSON"]]

\* r.error as a condition
HasError(r) == "error" \in DOMAIN r /\ r.error # ""

\* Promise.all: rejected as soon as one promise is rejected, fulfilled when
\* all are fulfilled
PromiseAll(ps) ==
    IF \E a \in DOMAIN ps : ps[a].st = "rejected" THEN "rejected"
    ELSE IF \A a \in DOMAIN ps : ps[a].st = "fulfilled" THEN "fulfilled"
    ELSE "pending"

RECURSIVE Flat(_)
Flat(ss) == IF ss = <<>> THEN <<>> ELSE Head(ss) \o Flat(Tail(ss))

RECURSIVE SumSeq(_)
SumSeq(xs) == IF xs = <<>> THEN 0 ELSE Head(xs) + SumSeq(Tail(xs))

\* Math.round(sum / n) for sum >= 0, n > 0
MathRound(sum, n) == (2 * sum + n) \div (2 * n)

NaN == "NaN"

\* result.findings.issues.forEach(...) where issues is set and no array
aggregateThrows(rs) ==
    \E k \in DOMAIN rs :
       /\ ~HasError(rs[k])
       /\ "findings" \in DOMAIN rs[k]
       /\ ~rs[k].findings.isArray

\* the issues one successful result contributes to allIssues
issuesOf(r) ==
    IF "findings" \in DOMAIN r
       THEN [k \in 1..Len(r.findings.issues) |->
               [severity |-> r.findings.issues[k], specialty |-> r.specialty]]
       ELSE <<>>

\* faulty variant: the two filters are exchanged
aggregateResultsExchanged(rs) ==
    LET successful == SelectSeq(rs, LAMBDA r : ~HasError(r))
        failed == SelectSeq(rs, HasError)
        allIssues == Flat([k \in 1..Len(successful) |-> issuesOf(successful[k])])
        seen == {allIssues[k].severity : k \in DOMAIN allIssues}
        scores == LET scored == SelectSeq(successful, LAMBDA r :
                                   "findings" \in DOMAIN r /\ r.findings.score # 0)
                  IN  [k \in 1..Len(scored) |-> scored[k].findings.score]
    IN  [success |-> TRUE,
         overallScore |-> IF Len(scores) > 0
                             THEN MathRound(SumSeq(scores), Len(scores)) ELSE 0,
         totalIssuesFound |-> Len(allIssues),
         issuesBySeverity |->
            [sv \in {"high", "medium", "low"} \cup seen |->
                IF sv \in {"high", "medium", "low"}
                   THEN Cardinality({k \in DOMAIN allIssues :
                                       allIssues[k].severity = sv})
                   ELSE NaN],
         agentResults |-> failed,
         failedAgents |-> successful,
         allIssues |-> allIssues]

\* faulty variant: the successful outcomes are not filtered
aggregateResultsUnfiltered(rs) ==
    LET successful == rs
        failed == SelectSeq(rs, HasError)
        allIssues == Flat([k \in 1..Len(successful) |-> issuesOf(successful[k])])
        seen == {allIssues[k].severity : k \in DOMAIN allIssues}
        scores == LET scored == SelectSeq(successful, LAMBDA r :
                                   "findings" \in DOMAIN r /\ r.findings.score # 0)
                  IN  [k \in 1..Len(scored) |-> scored[k].findings.score]
    IN  [success |-> TRUE,
         overallScore |-> IF Len(scores) > 0
                             THEN MathRound(SumSeq(scores), Len(scores)) ELSE 0,
         totalIssuesFound |-> Len(allIssues),
         issuesBySeverity |->
            [sv \in {"high", "medium", "low"} \cup seen |->
                IF sv \in {"high", "medium", "low"}
                   THEN Cardinality({k \in DOMAIN allIssues :
                                       allIssues[k].severity = sv})
                   ELSE NaN],
         agentResults |-> successful,
         failedAgents |-> failed,
         allIssues |-> allIssues]

\* aggregateResults(results, totalDuration): successful and failed are the
\* results without and with error; issuesBySeverity[issue.severity]++ starts
\* from {high: 0, medium: 0, low: 0}, so a severity outside the three keys
\* makes a key of its own that holds NaN; scores are the truthy
\* findings.score of the successful results.
aggregateResults(rs) ==
    LET successful == SelectSeq(rs, LAMBDA r : ~HasError(r))
        failed == SelectSeq(rs, HasError)
        allIssues == Flat([k \in 1..Len(successful) |-> issuesOf(successful[k])])
        seen == {allIssues[k].severity : k \in DOMAIN allIssues}
        scores == LET scored == SelectSeq(successful, LAMBDA r :
                                   "findings" \in DOMAIN r /\ r.findings.score # 0)
                  IN  [k \in 1..Len(scored) |-> scored[k].findings.score]
    IN  [success |-> TRUE,
         overallScore |-> IF Len(scores) > 0
                             THEN MathRound(SumSeq(scores), Len(scores)) ELSE 0,
         totalIssuesFound |-> Len(allIssues),
         issuesBySeverity |->
            [sv \in {"high", "medium", "low"} \cup seen |->
                IF sv \in {"high", "medium", "low"}
                   THEN Cardinality({k \in DOMAIN allIssues :
                                       allIssues[k].severity = sv})
                   ELSE NaN],
         agentResults |-> successful,
         failedAgents |-> failed,
         allIssues |-> allIssues]

\* analyzeCode, up to the await: agents.map(agent => agent.analyze(...))
\* calls analyze on every agent
analyzeCodeStart ==
    /\ analysis.pc = "idle"
    /\ promises' = [a \in 1..K |-> [st |-> "pending"]]
    /\ analysis' = [analysis EXCEPT !.pc = "awaiting"]
    /\ UNCHANGED <<pipeline, rest, reviewQueue, flatten>>

\* the analyze() of one agent settles, in any order with the others
analyzeSettles(a) ==
    /\ promises[a].st = "pending"
    /\ \E reply \in Replies : promises' = [promises EXCEPT ![a] = analyze(a, reply)]
    /\ UNCHANGED <<pipeline, rest, reviewQueue, analysis, flatten>>

\* await Promise.all(agentPromises) settles; aggregateResults runs on the
\* results; whatever is thrown is logged and thrown again by analyzeCode
analyzeCodeJoin ==
    /\ analysis.pc = "awaiting"
    /\ PromiseAll(promises) # "pending"
    /\ LET rs == [a \in 1..K |-> promises[a].value]
       IN  analysis' =
              IF PromiseAll(promises) = "rejected" THEN [analysis EXCEPT !.pc = "thrown"]
              ELSE IF aggregateThrows(rs) THEN [analysis EXCEPT !.pc = "thrown"]
              ELSE [analysis EXCEPT !.pc = "returned",
                                    !.report = aggregateResults(rs)]
    /\ UNCHANGED <<pipeline, rest, reviewQueue, promises, flatten>>

\* the worker's loop over files goes on to the next file with a new call
NextFile ==
    /\ analysis.pc = "returned"
    /\ analysis' = [pc |-> "idle", file |-> "later",
                    failedEarlier |-> analysis.failedEarlier
                                      \/ Len(analysis.report.failedAgents) > 0,
                    report |-> <<>>]
    /\ promises' = [a \in 1..K |-> [st |-> "none"]]
    /\ UNCHANGED <<pipeline, rest, reviewQueue, flatten>>

OrchestratorNext ==
    \/ analyzeCodeStart
    \/ \E a \in 1..K : analyzeSettles(a)
    \/ analyzeCodeJoin
    \/ NextFile

OrchestratorSpec == Init /\ [][OrchestratorNext]_vars

\* ================================= the flattening of findings, alone
\* The issues come from allIssues of the file reports: each carries the
\* severity the agent gave it (or none, ""), and the specialty and name of
\* the agent.  The specialty is one of the orchestrator's four, or one the
\* worker's tables do not know.
Specialties == {Agents[a] : a \in 1..K} \cup {"documentation"}
IssueSeverities == Severities \cup {"critical", "blocker", ""}
Issues == [specialty : Specialties, severity : IssueSeverities]

\* the name column of the agents table as the lookup returns it
AgentTables == {{}, {"bug", "security", "performance", "style"},
                {"bug", "security", "performance", "style", "documentation"}}

specialtyToDbName ==
    [bug_detection |-> "bug", performance |-> "performance",
     security |-> "security", style |-> "style"]

specialtyToCategory ==
    [bug_detection |-> "bug", security |-> "security",
     performance |-> "performance", style |-> "style"]

severityMap == {"critical", "high", "medium", "low", "info"}

AgentName(specialty) ==
    CASE specialty = "bug_detection" -> "Bug Detective"
      [] specialty = "security" -> "Security Guardian"
      [] specialty = "performance" -> "Performance Optimizer"
      [] specialty = "style" -> "Code Style Critic"
      [] OTHER -> "Documentation Reviewer"

\* String.prototype.toLowerCase on the strings that occur
toLowerCase(str) ==
    CASE str = "HIGH" -> "high"
      [] str = "Bug Detective" -> "bug detective"
      [] str = "Security Guardian" -> "security guardian"
      [] str = "Performance Optimizer" -> "performance optimizer"
      [] str = "Code Style Critic" -> "code style critic"
      [] str = "Documentation Reviewer" -> "documentation reviewer"
      [] OTHER -> str

\* specialtyToCategory[issue.specialty] || 'bug'
categoryOf(issue) ==
    IF issue.specialty \in DOMAIN specialtyToCategory
       THEN specialtyToCategory[issue.specialty] ELSE "bug"

\* severityMap[(issue.severity || 'medium').toLowerCase()] || 'medium'
severityOf(issue) ==
    LET rawSeverity == toLowerCase(IF issue.severity # "" THEN issue.severity
                                                         ELSE "medium")
    IN  IF rawSeverity \in severityMap THEN rawSeverity ELSE "medium"

\* the agent id: by the specialty's database name first, then by the
\* agent's display name; null when the agentMap knows neither
agentIdOf(agentMap, issue) ==
    LET dbName == IF issue.specialty \in DOMAIN specialtyToDbName
                     THEN specialtyToDbName[issue.specialty]
                     ELSE toLowerCase(issue.specialty)
        agentName == AgentName(issue.specialty)
    IN  IF dbName \in agentMap \/ toLowerCase(dbName) \in agentMap THEN dbName
        ELSE IF agentName \in agentMap THEN agentName
        ELSE IF toLowerCase(agentName) \in agentMap THEN toLowerCase(agentName)
        ELSE NULL

\* select id, name from agents: an error is logged and the agentMap stays
\* empty; otherwise every name is a key, as it is and in lower case
LoadAgents ==
    /\ flatten.pc = "lookup"
    /\ \/ flatten' = [flatten EXCEPT !.pc = "extract"]
       \/ \E names \in AgentTables :
             flatten' = [flatten EXCEPT
                           !.pc = "extract",
                           !.agentMap = names \cup {toLowerCase(n) : n \in names}]
    /\ UNCHANGED <<pipeline, rest, reviewQueue, promises, analysis>>

\* one turn of "for (const issue of issues)": the row pushed to allFindings
\* and the warning logged when no agent id was found
ExtractFinding(issue) ==
    /\ flatten.pc = "extract"
    /\ Len(flatten.issues) < MaxFindings
    /\ flatten' = [flatten EXCEPT
                      !.issues = Append(@, issue),
                      !.allFindings = Append(@,
                          [agent_id |-> agentIdOf(flatten.agentMap, issue),
                           severity |-> severityOf(issue),
                           category |-> categoryOf(issue)]),
                      !.warned = Append(@, agentIdOf(flatten.agentMap, issue) = NULL)]
    /\ UNCHANGED <<pipeline, rest, reviewQueue, promises, analysis>>

FlattenNext ==
    \/ LoadAgents
    \/ \E issue \in Issues : ExtractFinding(issue)

FlattenSpec == Init /\ [][FlattenNext]_vars

\* ================== STEP 5 to STEP 6.5 of one attempt, await by await
\* fileLoop.log records, in the order they happen, the calls of
\* orchestrator.analyzeCode, the writes of updateJobStatus and the
\* notifications job.progress of the loop; stored is what the attempt has
\* inserted into review_results.

\* what the K agents return for one file: the first nFail fail, the others
\* answer alike
FileOutcomes ==
    {[a \in 1..K |-> analyze(a, IF a <= nFail THEN [kind |-> "rejects"]
                                              ELSE reply).value] :
        nFail \in 0..K, reply \in {r \in Replies : r.kind = "json"}}

\* const files = await parseCodeFiles(cloneResult.path), and the write of
\* total_files; the loop is entered when 0 < files.length
parseCodeFiles ==
    /\ fileLoop.pc = "parseCodeFiles"
    /\ \E n \in 0..MaxEnumerated :
          fileLoop' = [fileLoop EXCEPT !.n = n,
                                       !.pc = IF 0 < n THEN "analyzeCode"
                                                       ELSE "aggregate"]
    /\ UNCHANGED <<pipeline, reviewQueue, promises, analysis, flatten,
                   saving, api, monitor>>

\* orchestrator.analyzeCode(file.content, file.language) is called on files[i]
analyzeCodeCalled ==
    /\ fileLoop.pc = "analyzeCode"
    /\ fileLoop' = [fileLoop EXCEPT
                      !.log = Append(@, [ev |-> "analyzeCode",
                                         file |-> fileLoop.i + 1]),
                      !.pc = "awaitAnalyzeCode"]
    /\ UNCHANGED <<pipeline, reviewQueue, promises, analysis, flatten,
                   saving, api, monitor>>

\* what the worker keeps of one report: the file and the fields it reads
\* later (allIssues as its length)
fileResult(path, report) ==
    [file |-> path, overallScore |-> report.overallScore,
     totalIssuesFound |-> report.totalIssuesFound,
     allIssues |-> Len(report.allIssues)]

\* the await of analyzeCode settles: the call throws, or it returns a report
\* and "if (results.success)" pushes it and adds its totalIssuesFound
analyzeCodeSettles ==
    /\ fileLoop.pc = "awaitAnalyzeCode"
    /\ \E rs \in FileOutcomes :
          IF aggregateThrows(rs)
             THEN fileLoop' = [fileLoop EXCEPT !.pc = "thrown"]
             ELSE LET report == aggregateResults(rs)
                  IN  fileLoop' = [fileLoop EXCEPT
                         !.analysisResults =
                             IF report.success
                                THEN Append(@, fileResult(fileLoop.i + 1, report))
                                ELSE @,
                         !.totalIssues = IF report.success
                                            THEN @ + report.totalIssuesFound
                                            ELSE @,
                         !.pc = "updateJobStatus"]
    /\ UNCHANGED <<pipeline, reviewQueue, promises, analysis, flatten,
                   saving, api, monitor>>

\* faulty variant: the progress is written once, after the last file
progressAfterLoop(log, processed, n) ==
    IF processed = n
       THEN log \o <<[ev |-> "updateJobStatus", processed_files |-> processed,
                      progress |-> progressPercent(processed, n)],
                     [ev |-> "progress", value |-> progressPercent(processed, n)]>>
       ELSE log

\* await updateJobStatus(jobId, {processed_files, progress}) and then
\* job.progress(progressPercent), as entries of the log
progressAfterFile(log, processed, n) ==
    log \o <<[ev |-> "updateJobStatus", processed_files |-> processed,
              progress |-> progressPercent(processed, n)],
             [ev |-> "progress", value |-> progressPercent(processed, n)]>>

\* the end of one turn: processed = i + 1 is written and notified, i++ and
\* the loop test; or the write throws
progressWritten ==
    /\ fileLoop.pc = "updateJobStatus"
    /\ \/ fileLoop' = [fileLoop EXCEPT
                         !.log = progressAfterFile(@, fileLoop.i + 1, fileLoop.n),
                         !.i = @ + 1,
                         !.pc = IF fileLoop.i + 1 < fileLoop.n
                                   THEN "analyzeCode" ELSE "aggregate"]
       \/ fileLoop' = [fileLoop EXCEPT !.pc = "thrown"]
    /\ UNCHANGED <<pipeline, reviewQueue, promises, analysis, flatten,
                   saving, api, monitor>>

\* faulty variant: the mean is cut off, not rounded
avgScoreFloor(analysisResults) ==
    IF Len(analysisResults) > 0
       THEN SumSeq([k \in DOMAIN analysisResults |->
                       analysisResults[k].overallScore]) \div Len(analysisResults)
       ELSE 0

\* analysisResults.length > 0 ? Math.round(analysisResults.reduce((sum, r) =>
\* sum + r.results.overallScore, 0) / analysisResults.length) : 0
avgScore(analysisResults) ==
    IF Len(analysisResults) > 0
       THEN MathRound(SumSeq([k \in DOMAIN analysisResults |->
                                 analysisResults[k].overallScore]),
                      Len(analysisResults))
       ELSE 0

\* STEP 6: the row inserted into review_results; resultsError is thrown
insertAggregate ==
    /\ fileLoop.pc = "aggregate"
    /\ \/ fileLoop' = [fileLoop EXCEPT
                         !.stored = <<[overall_score |-> avgScore(fileLoop.analysisResults),
                                       total_issues |-> fileLoop.totalIssues,
                                       totalFiles |-> fileLoop.n]>>,
                         !.pc = "extract"]
       \/ fileLoop' = [fileLoop EXCEPT !.pc = "thrown"]
    /\ UNCHANGED <<pipeline, reviewQueue, promises, analysis, flatten,
                   saving, api, monitor>>

\* faulty variant: only the first issue of every file becomes a row
extractFindingsFirstOnly(analysisResults) ==
    Flat([k \in DOMAIN analysisResults |->
            IF analysisResults[k].allIssues = 0 THEN <<>>
            ELSE <<[file_path |-> analysisResults[k].file, issue |-> 1]>>])

\* the two loops of STEP 6.5: a fileResult without issues is skipped, every
\* issue of the others is pushed to allFindings as one row
extractFindings(analysisResults) ==
    Flat([k \in DOMAIN analysisResults |->
            IF analysisResults[k].allIssues = 0 THEN <<>>
            ELSE [j \in 1..analysisResults[k].allIssues |->
                     [file_path |-> analysisResults[k].file, issue |-> j]]])

extractAll ==
    /\ fileLoop.pc = "extract"
    /\ fileLoop' = [fileLoop EXCEPT
                      !.allFindings = extractFindings(fileLoop.analysisResults),
                      !.pc = "extracted"]
    /\ UNCHANGED <<pipeline, reviewQueue, promises, analysis, flatten,
                   saving, api, monitor>>

FileLoopNext ==
    \/ parseCodeFiles
    \/ analyzeCodeCalled
    \/ analyzeCodeSettles
    \/ progressWritten
    \/ insertAggregate
    \/ extractAll

FileLoopSpec == Init /\ [][FileLoopNext]_vars

\* ==================== the batched inserts into the reviews table, alone
\* allFindings is taken by its length n, its rows by their positions 1..n; a
\* batch is the range of rows it holds and whether its insert returned an
\* error.

\* "Total findings extracted": allFindings has 0..MaxRows rows; the inserts
\* stand under "if (allFindings.length > 0)"
findingsExtracted ==
    /\ saving.pc = "extracted"
    /\ \E n \in 0..MaxRows :
          saving' = [saving EXCEPT !.n = n,
                                   !.pc = IF n > 0 THEN "insert" ELSE "saved"]
    /\ UNCHANGED <<pipeline, reviewQueue, promises, analysis, flatten,
                   fileLoop, api, monitor>>

\* faulty variant: the slice takes one row more than the step of the loop
sliceInclusive(n, start, end) ==
    [from |-> start + 1, to |-> IF end + 1 < n THEN end + 1 ELSE n]

\* allFindings.slice(start, end): the rows at the 0-based indices start to
\* end - 1, as far as there are rows
slice(n, start, end) ==
    [from |-> start + 1, to |-> IF end < n THEN end ELSE n]

\* one turn of "for (let i = 0; i < allFindings.length; i += BATCH_SIZE)":
\* the batch is inserted; an insertError is logged, otherwise the batch is
\* counted; then the next turn, if any
insertBatch ==
    /\ saving.pc = "insert"
    /\ \E insertError \in BOOLEAN :
          LET batch == slice(saving.n, saving.i, saving.i + BATCH_SIZE)
          IN  saving' = [saving EXCEPT
                 !.batches = Append(@, [from |-> batch.from, to |-> batch.to,
                                        error |-> insertError]),
                 !.insertedCount = IF insertError THEN @
                                   ELSE @ + (batch.to - batch.from + 1),
                 !.i = @ + BATCH_SIZE,
                 !.pc = IF saving.i + BATCH_SIZE < saving.n THEN "insert"
                                                            ELSE "saved"]
    /\ UNCHANGED <<pipeline, reviewQueue, promises, analysis, flatten,
                   fileLoop, api, monitor>>

SavingNext ==
    \/ findingsExtracted
    \/ insertBatch

SavingSpec == Init /\ [][SavingNext]_vars

\* ======================= PATCH /api/jobs/:id and GET /api/jobs, alone
\* api.row is the review_jobs row of the job the requests name; route,
\* request and response are the last request and the HTTP status it got.

\* the status values a client sends: the four of the job, the three of a
\* repository, one that is neither, and the empty string
StatusInputs ==
    {"queued", "processing", "completed", "failed",
     "pending", "cloning", "analyzing", "done", ""}

ProgressInputs == {-1, 0, 50, 100, 101}

\* req.body of PATCH: status and progress, each given or not
PatchBodies ==
    {<<>>}
    \cup {[status |-> st] : st \in StatusInputs}
    \cup {[progress |-> p] : p \in ProgressInputs}
    \cup {[status |-> st, progress |-> p] :
             st \in StatusInputs, p \in ProgressInputs}

\* req.query of GET /api/jobs: status given or not
ListQueries == {<<>>} \cup {[status |-> st] : st \in StatusInputs}

\* isValidJobStatus(status): validStatuses.includes(status)
isValidJobStatus(status) ==
    status \in {"pending", "cloning", "analyzing", "completed", "failed"}

\* "x.status && !isValidJobStatus(x.status)": a status that is given, not
\* empty and not valid
statusRefused(x) ==
    /\ "status" \in DOMAIN x
    /\ x.status # ""
    /\ ~isValidJobStatus(x.status)

\* the timestamps PATCH adds to the updates by their status
withTimestamps(updates) ==
    IF "status" \notin DOMAIN updates THEN updates
    ELSE IF updates.status = "processing" THEN updates @@ [started_at |-> TRUE]
    ELSE IF updates.status \in {"completed", "failed"}
         THEN updates @@ [completed_at |-> TRUE]
    ELSE updates

\* router.patch('/:id'): 400 for a refused status or a progress outside
\* 0..100; otherwise the update of the row, answered 200, or 404 when the
\* store finds no row and 500 when it fails otherwise
patchJob(updates) ==
    /\ api' = IF statusRefused(updates)
                 THEN [api EXCEPT !.route = "PATCH", !.request = updates,
                                  !.response = 400]
              ELSE IF "progress" \in DOMAIN updates
                      /\ (updates.progress < 0 \/ updates.progress > 100)
                 THEN [api EXCEPT !.route = "PATCH", !.request = updates,
                                  !.response = 400]
              ELSE [api EXCEPT !.route = "PATCH", !.request = updates,
                               !.response = 200,
                               !.row = Merge(@, withTimestamps(updates))]
    /\ UNCHANGED <<pipeline, reviewQueue, promises, analysis, flatten,
                   fileLoop, saving, monitor>>

patchJobFails(updates) ==
    /\ ~statusRefused(updates)
    /\ "progress" \in DOMAIN updates
          => (updates.progress >= 0 /\ updates.progress <= 100)
    /\ \E code \in {404, 500} :
          api' = [api EXCEPT !.route = "PATCH", !.request = updates,
                             !.response = code]
    /\ UNCHANGED <<pipeline, reviewQueue, promises, analysis, flatten,
                   fileLoop, saving, monitor>>

\* router.get('/'): 400 for a refused status filter, otherwise the query
\* (with .eq('status', status) when a status is given), answered 200 or 500
listJobs(query) ==
    /\ \E code \in IF statusRefused(query) THEN {400} ELSE {200, 500} :
          api' = [api EXCEPT !.route = "GET", !.request = query,
                             !.response = code]
    /\ UNCHANGED <<pipeline, reviewQueue, promises, analysis, flatten,
                   fileLoop, saving, monitor>>

ApiNext ==
    \/ \E updates \in PatchBodies : patchJob(updates)
    \/ \E updates \in PatchBodies : patchJobFails(updates)
    \/ \E query \in ListQueries : listJobs(query)

ApiSpec == Init /\ [][ApiNext]_vars

\* =============================== getQueueStats beside a working queue
\* monitor.jobs is the state of each job in the queue ("none": not added);
\* counts are the counts read so far by the call, stats what it returned,
\* seen the states the queue went through since the call began.

\* the five counts, in the order the call asks for them
CountNames == <<"waiting", "active", "completed", "failed", "delayed">>

\* reviewQueue.getWaitingCount() and the four others on the queue as it is
CountOf(jobs, name) == Cardinality({j \in JobIds : jobs[j] = name})

\* the moves of one job in the queue: added (delayed or not), promoted,
\* taken by a worker, completed, failed for good or for a retry
JobMoves ==
    {<<"none", "waiting">>, <<"none", "delayed">>, <<"delayed", "waiting">>,
     <<"waiting", "active">>, <<"active", "completed">>,
     <<"active", "failed">>, <<"active", "delayed">>}

\* a job changes its state, whether or not a call of getQueueStats is reading
jobMoves(j) ==
    /\ monitor.pc = "reading" => monitor.moves < MaxMoves
    /\ \E to \in {m[2] : m \in {mv \in JobMoves : mv[1] = monitor.jobs[j]}} :
          LET after == [monitor.jobs EXCEPT ![j] = to]
          IN  monitor' = [monitor EXCEPT
                            !.jobs = after,
                            !.seen = IF monitor.pc = "reading"
                                        THEN @ \cup {after} ELSE @,
                            !.moves = IF monitor.pc = "reading" THEN @ + 1
                                                                ELSE @]
    /\ UNCHANGED <<pipeline, reviewQueue, promises, analysis, flatten,
                   fileLoop, saving, api>>

\* getQueueStats is called: the five count requests are made
getQueueStats ==
    /\ monitor.pc \in {"idle", "returned"}
    /\ monitor' = [monitor EXCEPT !.pc = "reading", !.counts = <<>>,
                                  !.stats = <<>>, !.seen = {monitor.jobs},
                                  !.moves = 0]
    /\ UNCHANGED <<pipeline, reviewQueue, promises, analysis, flatten,
                   fileLoop, saving, api>>

\* the queue answers the next of the five count requests
countRead ==
    /\ monitor.pc = "reading"
    /\ Len(monitor.counts) < Len(CountNames)
    /\ monitor' = [monitor EXCEPT
                     !.counts = Append(@, CountOf(monitor.jobs,
                                                  CountNames[Len(@) + 1]))]
    /\ UNCHANGED <<pipeline, reviewQueue, promises, analysis, flatten,
                   fileLoop, saving, api>>

\* the object getQueueStats returns
statsOf(counts) ==
    [waiting |-> counts[1], active |-> counts[2], completed |-> counts[3],
     failed |-> counts[4], delayed |-> counts[5],
     total |-> counts[1] + counts[2] + counts[3] + counts[4] + counts[5]]

\* Promise.all is fulfilled with the five counts and the call returns the
\* stats; or a count request rejects and the call logs it and returns null
getQueueStatsReturns ==
    /\ monitor.pc = "reading"
    /\ \/ /\ Len(monitor.counts) = Len(CountNames)
          /\ monitor' = [monitor EXCEPT !.pc = "returned",
                                        !.stats = statsOf(monitor.counts)]
       \/ monitor' = [monitor EXCEPT !.pc = "returned", !.stats = <<>>]
    /\ UNCHANGED <<pipeline, reviewQueue, promises, analysis, flatten,
                   fileLoop, saving, api>>

MonitorNext ==
    \/ \E j \in JobIds : jobMoves(j)
    \/ getQueueStats
    \/ countRead
    \/ getQueueStatsReturns

MonitorSpec == Init /\ [][MonitorNext]_vars

\* ================================================================ claims

\* C1: job status is forward-only and a terminal status is final: once the
\* job row holds completed or failed, no later write changes its status.
C1_TerminalIsFinal ==
    [][job.status \in Terminal => job'.status = job.status]_vars

\* C2: while the status is processing the stored progress never decreases,
\* also across the writes of a later attempt, and it stays within 0..100.
C2_ProgressMonotone ==
    [][/\ job'.progress \in 0..100
       /\ (job.status = "processing" /\ job'.status = "processing")
             => job'.progress >= job.progress]_vars

\* C3: in every reachable state of the job row processed_files <= total_files
\* (total_files is unset until the first enumerate step).
C3_ProcessedLeTotal ==
    job.total_files # Unset => job.processed_files <= job.total_files

\* C4: no job stays queued or processing forever: whenever nothing more can
\* happen to the job (no step of the route, the queue or a worker is
\* enabled), its status is completed or failed.
C4_NoJobStuck ==
    job.status \in Terminal \/ ENABLED Next

\* C5: the job row is written only by the invocation that holds the job's
\* queue lease: every step that changes the row is a step of the slot that
\* holds the lock of the active job.
C5_OnlyLeaseHolderWrites ==
    [][job' # job =>
         \E w \in Slots : /\ q.state = "active" /\ q.lock = w
                          /\ inv'[w] # inv[w]]_vars

\* C6: the cloned workspace is released on every exit path: when an
\* invocation has settled, no temp directory it created still exists.
C6_WorkspaceReleased ==
    \A w \in Slots : inv[w].pc = "settle" => inv[w].tempDir # "exists"

\* C6 witness: an invocation settles after the failed-status write in its
\* catch block threw (no terminal write succeeded), its clone removed.
C6_Witness ==
    \E w \in Slots : /\ inv[w].pc = "settle" /\ inv[w].outcome = "thrown"
                     /\ inv[w].tempDir = "removed"
                     /\ inv[w].closing = <<"cleanup">>

C8_MissingRepoNotRetried ==
    [][q.failedReason = "RepoNotFound" => invocations' = invocations]_vars

Failing == {a \in 1..K : promises[a].st = "fulfilled" /\ HasError(promises[a].value)}
Succeeding == {a \in 1..K : promises[a].st = "fulfilled" /\ ~HasError(promises[a].value)}

\* C12: fan-out/fan-in without short-circuit: analyzeCode has started every
\* agent, returns only when all K have settled, reports every agent in its
\* report, and never throws.
C12_NoShortCircuit ==
    /\ analysis.pc # "thrown"
    /\ analysis.pc \in {"awaiting", "returned"} =>
          \A a \in 1..K : promises[a].st # "none"
    /\ analysis.pc = "returned" =>
          /\ \A a \in 1..K : promises[a].st = "fulfilled"
          /\ Len(analysis.report.agentResults)
                + Len(analysis.report.failedAgents) = K

SucceedingScores == {promises[a].value.findings.score : a \in Succeeding}

SucceedingIssues ==
    LET n(a) == IF promises[a].value.findings.isArray
                   THEN Len(promises[a].value.findings.issues) ELSE 0
    IN  SumSeq([a \in 1..K |-> IF a \in Succeeding THEN n(a) ELSE 0])

\* C14: an analyzer's failure on a file is isolated and counted once: the
\* report of a file on which one of the 4 analyzers failed holds 4 outcomes,
\* exactly 1 of them in failedAgents, and totalIssuesFound counts the
\* findings of the 3 succeeding analyzers; the report of a file on which no
\* analyzer failed holds 4 successful outcomes and all their findings,
\* whether or not an analyzer failed on an earlier file of the job.
C14_FailureIsolated ==
    analysis.pc = "returned" =>
       LET rep == analysis.report IN
       /\ Cardinality(Failing) = 1 =>
             /\ Len(rep.agentResults) + Len(rep.failedAgents) = 4
             /\ Len(rep.failedAgents) = 1
             /\ Len(rep.agentResults) = 3
             /\ rep.totalIssuesFound = SucceedingIssues
       /\ Cardinality(Failing) = 0 =>
             /\ Len(rep.agentResults) = 4
             /\ rep.failedAgents = <<>>
             /\ rep.totalIssuesFound = SucceedingIssues

\* C14 witness: a later file of the job, no analyzer failed on the files
\* before it, one analyzer fails on it and the three others report findings.
C14_Witness ==
    /\ analysis.pc = "returned" /\ analysis.file = "later"
    /\ ~analysis.failedEarlier
    /\ Cardinality(Failing) = 1
    /\ analysis.report.totalIssuesFound = 3

\* C14 second case reached: a file without failure after a file with one.
C14_WitnessOtherFile ==
    /\ analysis.pc = "returned" /\ analysis.failedEarlier
    /\ Cardinality(Failing) = 0
    /\ analysis.report.totalIssuesFound > 0

\* C15: overallScore is the arithmetic mean, rounded to the nearest
\* integer, of the scores of all successful outcomes (a score of 0
\* included), and 0 when no analyzer succeeded.
C15_ScoreIsMeanOfSuccesses ==
    analysis.pc = "returned" =>
       analysis.report.overallScore =
          IF Succeeding = {} THEN 0
          ELSE MathRound(SumSeq([a \in 1..K |->
                                   IF a \in Succeeding
                                      THEN promises[a].value.findings.score
                                      ELSE 0]),
                         Cardinality(Succeeding))

\* the findings of severity sv the successful agents replied with, counted
SucceedingOfSeverity(sv) ==
    SumSeq([a \in 1..K |->
              IF a \in Succeeding
                 THEN Cardinality({k \in DOMAIN promises[a].value.findings.issues :
                                     promises[a].value.findings.issues[k] = sv})
                 ELSE 0])

\* C16: for each severity s of high, medium, low the report's
\* issuesBySeverity[s] is the number of findings of severity s of the
\* successful outcomes, and the three tallies add up to totalIssuesFound.
C16_TalliesSumToTotal ==
    analysis.pc = "returned" =>
       LET rep == analysis.report IN
       /\ \A sv \in {"high", "medium", "low"} :
             rep.issuesBySeverity[sv] = SucceedingOfSeverity(sv)
       /\ rep.issuesBySeverity["high"] + rep.issuesBySeverity["medium"]
             + rep.issuesBySeverity["low"] = rep.totalIssuesFound

C18_CloneFailureLeavesNoProgress ==
    \A w \in Slots :
       (inv[w].pc = "settle" /\ inv[w].err = "CloneFailed"
                             /\ q.stalledCounter = 0) =>
          /\ inv[w].i = 0 /\ inv[w].files = 0
          /\ job.status = "failed" /\ job.error_message = "CloneFailed"
          /\ job.processed_files = 0
          /\ job.total_files \in {Unset, 0}

\* C19: when the review_results insert returns an error, the attempt has
\* not written completed and writes no finding row, and its catch block sets
\* the job's status to failed with an error message.
C19_RefusedAggregateFailsJob ==
    /\ [](\A w \in Slots :
            inv[w].persisted = "refused" =>
               (inv[w].pc = "catch" /\ inv[w].closing = <<>>))
    /\ [][\A w \in Slots :
            (inv[w].persisted = "refused" /\ inv'[w].pc = "finally") =>
               (job'.status = "failed" /\ job'.error_message # NULL)]_vars

C21_Expected(j) ==
    LET file == ((j - 1) \div 3) + 1
        at == (j - 1) % 3
    IN  IF at = 0 THEN [ev |-> "analyzeCode", file |-> file]
        ELSE IF at = 1
             THEN [ev |-> "updateJobStatus", processed_files |-> file,
                   progress |-> progressPercent(file, fileLoop.n)]
        ELSE [ev |-> "progress", value |-> progressPercent(file, fileLoop.n)]

\* C21: within one attempt the orchestrator is invoked exactly once per
\* enumerated file, in enumeration order and one file at a time; after each
\* file processed_files grows by exactly 1 and the job state is written and
\* notified before the analysis of the next file starts, one notification
\* per processed file.
C21_OneCallOneNotePerFile ==
    /\ \A j \in DOMAIN fileLoop.log : fileLoop.log[j] = C21_Expected(j)
    /\ fileLoop.pc \in {"aggregate", "extract", "extracted"}
          => Len(fileLoop.log) = 3 * fileLoop.n

C21_Witness ==
    /\ fileLoop.pc = "aggregate"
    /\ fileLoop.n = 2
    /\ Len(fileLoop.log) = 6

\* s is sum / n rounded to the nearest integer, halves upwards
C23_IsRoundedMean(s, sum, n) ==
    /\ 2 * n * s <= 2 * sum + n
    /\ 2 * sum + n < 2 * n * s + 2 * n

\* C23: the overall score stored with the aggregate report is the mean,
\* rounded to the nearest integer, of the per-file overallScore over the
\* files that produced an outcome, and 0 when there is no such file.
C23_JobScoreIsRoundedMean ==
    fileLoop.stored # <<>> =>
       LET rs == fileLoop.analysisResults
           sum == SumSeq([k \in DOMAIN rs |-> rs[k].overallScore])
       IN  /\ Len(rs) = fileLoop.n
           /\ IF fileLoop.n = 0
                 THEN fileLoop.stored[1].overall_score = 0
                 ELSE C23_IsRoundedMean(fileLoop.stored[1].overall_score,
                                        sum, fileLoop.n)

\* two files scored 85 and 100: the mean 92.5 is stored as 93
C23_Witness ==
    /\ fileLoop.stored # <<>>
    /\ fileLoop.n = 2
    /\ fileLoop.analysisResults[1].overallScore = 85
    /\ fileLoop.analysisResults[2].overallScore = 100
    /\ fileLoop.stored[1].overall_score = 93

\* C27: in every attempt that reaches persistence the total_issues stored
\* with the aggregate report is the sum over the analyzed files of
\* totalIssuesFound, which is the number of finding rows the worker builds.
C27_TotalIssuesIsRowCount ==
    /\ fileLoop.stored # <<>> =>
          fileLoop.stored[1].total_issues =
             SumSeq([k \in DOMAIN fileLoop.analysisResults |->
                        fileLoop.analysisResults[k].totalIssuesFound])
    /\ fileLoop.pc = "extracted" =>
          Len(fileLoop.allFindings) = fileLoop.stored[1].total_issues

C27_Witness ==
    /\ fileLoop.pc = "extracted"
    /\ fileLoop.n = 2
    /\ fileLoop.analysisResults[1].totalIssuesFound = 0
    /\ fileLoop.analysisResults[2].totalIssuesFound > 1
    /\ Len(fileLoop.allFindings) > 1

\* the stages of an attempt, in the order of the try block
C22_Stages ==
    <<"fetchRepo", "markProcessing", "clone", "recordTotal", "analyze",
      "persist", "markCompleted">>

C22_StageSet == {C22_Stages[k] : k \in DOMAIN C22_Stages}

\* C22: within one attempt the stages are strictly forward (load repository,
\* clone, enumerate and record total_files, analyze files, aggregate and
\* persist, mark completed): a stage starts only when its predecessor has
\* succeeded, none is repeated or skipped (the analysis has one turn per
\* file, none for zero files), and the failure exit is the only other way
\* out, open at every stage.
C22_StagesForward ==
    /\ [](\A w \in Slots :
            inv[w].pc \in C22_StageSet
               => ENABLED (processReviewJob(w) /\ inv'[w].pc = "catch"))
    /\ [][\A w \in Slots :
            inv'[w].pc # inv[w].pc /\ inv[w].pc \in C22_StageSet =>
               \/ inv'[w].pc = "catch"
               \/ /\ inv[w].pc = "markCompleted"
                  /\ inv'[w].pc = "finally"
                  /\ inv'[w].outcome = "returned"
               \/ /\ \E k \in 1..(Len(C22_Stages) - 1) :
                        /\ inv[w].pc = C22_Stages[k]
                        /\ inv'[w].pc = C22_Stages[k + 1]
                  /\ inv'[w].pc = "analyze" => inv'[w].i = 0
                  /\ inv'[w].pc = "persist" => inv'[w].i = inv[w].files
               \/ /\ inv[w].pc = "recordTotal"
                  /\ inv'[w].pc = "persist"
                  /\ inv[w].files = 0]_vars

\* an attempt over one file has gone through every stage and returned
C22_Witness ==
    \E w \in Slots :
       /\ inv[w].pc = "finally"
       /\ inv[w].outcome = "returned"
       /\ inv[w].files > 0
       /\ inv[w].i = inv[w].files

\* C24: the aggregate report is persisted once per job: over all attempts of
\* a job, a retry after a failure later than the insert included, at most
\* one review_results row is inserted, and it is inserted before the job is
\* marked completed.  Stated for the runs in which the job never stalled.
C24_OneAggregateRow ==
    q.stalledCounter = 0 =>
       /\ results <= 1
       /\ job.status = "completed" => results >= 1

\* C28: whenever the job row has status completed, its progress is 100 and
\* its processed_files equals its total_files, zero analyzable files included.
C28_CompletedIsWhole ==
    job.status = "completed" =>
       /\ job.progress = 100
       /\ job.processed_files = job.total_files

\* the same for the runs in which the job never stalled
C28_CompletedIsWholeUnstalled ==
    q.stalledCounter = 0 => C28_CompletedIsWhole

\* C29: the failure fields describe the current terminal state only: the job
\* row carries an error_message only if its status is failed and a
\* completed_at only if its status is completed or failed, also after a
\* retry of a failed attempt.  Stated for the runs in which the job never
\* stalled.
C29_FailureFieldsAreCurrent ==
    q.stalledCounter = 0 =>
       /\ job.error_message # NULL => job.status = "failed"
       /\ job.completed_at => job.status \in Terminal

\* C26: finding rows are written in consecutive batches of at most 100 rows:
\* every extracted finding is submitted in exactly one batch, in extraction
\* order, and a batch whose insert returns an error does not keep the later
\* batches from being submitted.
C26_BatchesCoverInOrder ==
    LET bs == saving.batches
    IN  /\ \A k \in DOMAIN bs :
              /\ bs[k].from <= bs[k].to
              /\ bs[k].to - bs[k].from + 1 <= 100
              /\ bs[k].from = IF k = 1 THEN 1 ELSE bs[k - 1].to + 1
        /\ saving.pc = "saved" =>
              /\ saving.n = 0 => bs = <<>>
              /\ saving.n > 0 => bs # <<>> /\ bs[Len(bs)].to = saving.n
              /\ saving.insertedCount <= saving.n

\* 201 rows: three batches, the first refused, the later ones submitted
C26_Witness ==
    /\ saving.pc = "saved"
    /\ saving.n > 200
    /\ Len(saving.batches) = 3
    /\ saving.batches[1].error
    /\ ~saving.batches[3].error
    /\ saving.insertedCount = saving.n - 100

\* C25: PATCH /api/jobs/:id and the status filter of GET /api/jobs accept
\* exactly the status values queued, processing, completed and failed: a
\* request with one of the four is not answered 400 for its status, and a
\* request with any other status value is answered 400 and leaves the job
\* row as it was.
C25_FourStatusesAccepted ==
    [][("status" \in DOMAIN api'.request /\ api' # api) =>
          IF api'.request.status \in {"queued", "processing", "completed", "failed"}
             THEN \/ api'.response # 400
                  \/ /\ "progress" \in DOMAIN api'.request
                     /\ api'.request.progress \notin 0..100
             ELSE api'.response = 400 /\ api'.row = api.row]_vars

\* the jobs the queue holds in the state jobs
C30_Held(jobs) == Cardinality({j \in JobIds : jobs[j] # "none"})

\* C30: getQueueStats returns a consistent snapshot: the five counts describe
\* one state the queue was in at some instant during the call, so that total
\* equals the number of jobs the queue held, also when jobs change state
\* while the counts are read.
C30_StatsAreASnapshot ==
    (monitor.pc = "returned" /\ monitor.stats # <<>>) =>
       \E jobs \in monitor.seen :
          /\ \A k \in DOMAIN CountNames :
                monitor.stats[CountNames[k]] = CountOf(jobs, CountNames[k])
          /\ monitor.stats.total = C30_Held(jobs)

====
